---- MODULE Spec2Model ----
(***************************************************************************)
(* A model of the wikimon evolution crawler: the persistent store of       *)
(* wikimonscrape/digidb.py (tables digimon, scraped, refs) and the crawl   *)
(* engine of wikimonscrape/scrape/process.py (delayed_request, the         *)
(* reference classifier, extract_evolutions, get_evo_links,                *)
(* recurse_search and the three seeding modes).                            *)
(***************************************************************************)
EXTENDS Integers, Sequences, FiniteSets, TLC

VARIABLES
    web,        \* which static document set the wiki serves
    cfg,        \* MIN_REFERENCES, LOW_EVO_COUNT, IGNORE_CARD_ONLY_REFS, ASSUME_CARDS_FILLED
    digimon,    \* table digimon: a sequence of rows, the row id is the index
    ledger,     \* table scraped: site -> number of rows holding it
    refs,       \* table refs: url -> "NULL" (no row), "card", "noncard"
    pc,         \* the position of the process
    mode,       \* the seeding mode of the current run
    seeds,      \* the seed rows resume_scrape / refill_links still iterate
    sites,      \* the stack of recurse_search
    site,       \* the site popped last
    cur,        \* the in-memory ScrapeDigimon of get_evo_links
    ev,         \* what the last step did (fetches, get_evo_links runs, pushes)
    refFetch,   \* per site: delayed_request calls of create_ref in this run (0, 1, many)
    nfail,      \* network failures so far
    fetched,    \* the sites the network has served so far, over the life of the store
    hist        \* the runs made on this store so far

vars == <<web, cfg, digimon, ledger, refs, pc, mode, seeds, sites, site, cur, ev,
          refFetch, nfail, fetched, hist>>

(***************************************************************************)
(* Bounds of the model.                                                    *)
(***************************************************************************)
MaxRuns == 2
MaxFail == 1
MaxLedger == 2
MaxItems == 3

(***************************************************************************)
(* Program constants.                                                      *)
(***************************************************************************)
MIN_REFERENCES == 2
LOW_EVO_COUNT == 3

NULL == "NULL"
NoSite == "none"

\* Site identifiers.  The ones that start with "/" are same-site paths.
LocalSites == {"/A", "/B", "/C", "/D", "/T1", "/T2", "/T 3", "/T%203", "/battle-spirits"}
Sites == LocalSites \cup {"ext"}

\* str.startswith("/")
\* a test that takes every identifier for a same-site path
StartsWithSlash_any(s) == TRUE

\* site.startswith("/")
StartsWithSlash(s) == s \in LocalSites

\* urllib.parse.quote: leaves the safe characters alone, percent-encodes the
\* rest (a space becomes %20, a percent sign becomes %25).
quote(s) ==
    CASE s = "/T 3" -> "/T%203"
      [] s = "/T%203" -> "/T%25203"
      [] OTHER -> s

Urls == Sites \cup {"/T%25203"}

(***************************************************************************)
(* The wiki: a static set of documents.  A document is what the parser     *)
(* gives for a page: whether it carries the Category:Digimon link, whether *)
(* it carries the Category:List of Cards link, its #firstHeading, and the  *)
(* nodes "li a[title]:first-of-type, h2" in document order.                *)
(***************************************************************************)
H(text) == [type |-> "h2", text |-> text, href |-> NoSite, cites |-> <<>>]
A(href, cites) == [type |-> "a", text |-> "name", href |-> href, cites |-> cites]
ACardGame(href, cites) == [type |-> "a", text |-> "card game", href |-> href, cites |-> cites]

\* A "#cite" marker of a list item: found is whether the references section
\* holds an entry for it, href is that entry's link.
Cite(href) == [found |-> TRUE, href |-> href]
CiteNoEntry == [found |-> FALSE, href |-> NoSite]

Page(isDigimon, isCard, heading, items) ==
    [isDigimon |-> isDigimon, isCard |-> isCard, heading |-> heading, items |-> items]

PlainPage == Page(FALSE, FALSE, "x", <<>>)
CardPage == Page(FALSE, TRUE, "x", <<>>)

\* The pages that only serve as citation targets or as non-creature pages.
BasePage(s) == IF s \in {"/T2", "/battle-spirits"} THEN CardPage ELSE PlainPage

FROM == "evolves from"
TO == "evolves to"
OTHER_H == "other"

\* A and B list each other, and both list C: cycles.
WebCycle ==
    [s \in Sites |->
        CASE s = "/A" -> Page(TRUE, FALSE, "A",
                 <<A("/D", <<>>), H(FROM), H(TO), A("/B", <<Cite("/T1"), Cite("/T1")>>),
                   A("/C", <<Cite("/T 3")>>), H(OTHER_H), A("/D", <<Cite("/T1")>>)>>)
          [] s = "/B" -> Page(TRUE, FALSE, "B",
                 <<H(FROM), A("/A", <<Cite("/T1")>>), H(TO), A("/C", <<Cite("/T1")>>)>>)
          [] s = "/C" -> Page(TRUE, FALSE, "C",
                 <<H(FROM), A("/A", <<Cite("/T 3")>>), A("/B", <<Cite("/T1")>>)>>)
          [] OTHER -> BasePage(s)]

\* A -> B -> C -> D, D is not a creature page; A also links off the site.
WebChain ==
    [s \in Sites |->
        CASE s = "/A" -> Page(TRUE, FALSE, "A",
                 <<H(TO), A("/B", <<Cite("/T1")>>), A("ext", <<Cite("/T1")>>)>>)
          [] s = "/B" -> Page(TRUE, FALSE, "B",
                 <<H(FROM), A("/A", <<Cite("/T1")>>), H(TO), A("/C", <<Cite("/T1")>>)>>)
          [] s = "/C" -> Page(TRUE, FALSE, "C", <<H(TO), A("/D", <<Cite("/T%203")>>)>>)
          [] OTHER -> BasePage(s)]

\* The page /B carries the heading "A/": the same name as /A once stripped.
WebSameName ==
    [s \in Sites |->
        CASE s = "/A" -> Page(TRUE, FALSE, "A", <<H(TO), A("/B", <<Cite("/T1")>>)>>)
          [] s = "/B" -> Page(TRUE, FALSE, "A/", <<H(TO), A("/C", <<Cite("/T1")>>)>>)
          [] s = "/C" -> Page(TRUE, FALSE, "C", <<H(FROM), A("/A", <<Cite("/T1")>>)>>)
          [] OTHER -> BasePage(s)]

\* A lists more than LOW_EVO_COUNT candidates with mixed evidence.
WebCards ==
    [s \in Sites |->
        CASE s = "/A" -> Page(TRUE, FALSE, "A",
                 <<H(TO),
                   A("/B", <<Cite("/T1"), Cite("/T 3")>>),
                   A("/C", <<Cite("/T2")>>),
                   A("/D", <<Cite("/T1"), Cite("ext"), CiteNoEntry>>),
                   A("/C", <<Cite("/T1"), Cite("/battle-spirits"), Cite("/B")>>),
                   ACardGame("/D", <<Cite("/T1"), Cite("/T1")>>),
                   A("/B", <<Cite("/T1")>>),
                   A("/A", <<Cite("/T1")>>),
                   A("/D", <<>>)>>)
          [] s = "/B" -> Page(TRUE, FALSE, "B", <<H(FROM), A("/A", <<>>), A("/C", <<Cite("/T2")>>)>>)
          [] s = "/C" -> Page(TRUE, FALSE, "C",
                 <<H(FROM), A("/A", <<Cite("/B"), Cite("/T2")>>), A("/A", <<Cite("/B")>>)>>)
          [] OTHER -> BasePage(s)]

Webs == {WebCycle, WebChain, WebSameName, WebCards}

(***************************************************************************)
(* The store (wikimonscrape/digidb.py).                                    *)
(***************************************************************************)
\* the text requests.get(BASE_URL + href).text gives for a site, named by the
\* site it is the page of
text_of(s) == s

Lnk(v) == [null |-> FALSE, val |-> v]
NullLnk == [null |-> TRUE, val |-> <<>>]

Row(name, url, html, flag, prev, nxt) ==
    [name |-> name, url |-> url, html |-> html, scraped |-> flag,
     prev_links |-> prev, next_links |-> nxt]

RowIds(db) == 1..Len(db)

\* the lowest row id satisfying P, 0 when there is none (cursor.fetchone)
FirstRow(db, P(_)) ==
    IF \E i \in RowIds(db) : P(db[i])
    THEN CHOOSE i \in RowIds(db) : P(db[i]) /\ \A j \in 1..(i - 1) : ~P(db[j])
    ELSE 0

\* scraped that looks in table scraped only
scraped_ledger_only(db, led, s) ==
    /\ led[s] > 0
    /\ ~\E i \in RowIds(db) : db[i].url = s /\ db[i].scraped = "0"

\* scraped that does not look for a row with scraped = 0
scraped_ledger_or_flag(db, led, s) ==
    \/ led[s] > 0
    \/ \E i \in RowIds(db) : db[i].url = s /\ db[i].scraped = "1"

\* scraped that looks at the scraped column only
scraped_flag_only(db, led, s) ==
    \E i \in RowIds(db) : db[i].url = s /\ db[i].scraped = "1"

\* DigiDB.scraped
scraped(db, led, s) ==
    \/ /\ led[s] > 0
       /\ ~\E i \in RowIds(db) : db[i].url = s /\ db[i].scraped = "0"
    \/ \E i \in RowIds(db) : db[i].url = s /\ db[i].scraped = "1"

\* table scraped with a row for s added although get_evo_links(s) raised
ledger_marked_on_raise(led, s) == [led EXCEPT ![s] = IF @ >= MaxLedger THEN @ ELSE @ + 1]

\* table scraped after get_evo_links(s) raised in recurse_search: the call of
\* mark_scraped on the next line is not reached
ledger_on_raise(led, s) == led

\* table scraped without the row mark_scraped inserts
mark_scraped_nothing(led, s) == led

\* DigiDB.mark_scraped: one more row in table scraped
mark_scraped(led, s) == [led EXCEPT ![s] = @ + 1]

\* json.loads(column) if column else []
loads(l) == IF l.null THEN <<>> ELSE l.val

\* DigiDB.digimon_by_site: the row id, 0 for None
digimon_by_site(db, s) ==
    LET P(r) == r.url = s IN FirstRow(db, P)

\* the ScrapeDigimon dictionary built from row i
ScrapeDigimon(db, i) ==
    [id |-> i, name |-> db[i].name, url |-> db[i].url,
     prev_links |-> loads(db[i].prev_links), next_links |-> loads(db[i].next_links)]

NoDigimon == [id |-> 0, name |-> "", url |-> NoSite, prev_links |-> <<>>, next_links |-> <<>>]

\* DigiDB.get_digimon_html: the content when a row of that url holds content
get_digimon_html(db, url) ==
    LET P(r) == r.url = url /\ r.html # NULL
        i == FirstRow(db, P)
    IN IF i = 0 THEN NULL ELSE db[i].html

\* exists_digimon that finds no row
exists_digimon_never(db, name) == 0

\* DigiDB.exists_digimon: the row id, 0 for None
exists_digimon(db, name) ==
    LET P(r) == r.name = name IN FirstRow(db, P)

\* register_digimon that writes the url and the html of the page into the row
\* that already holds its name
register_digimon_overwrite(db, name, url, html) ==
    IF exists_digimon(db, name) # 0
    THEN [i \in RowIds(db) |->
            IF i = exists_digimon(db, name) THEN [db[i] EXCEPT !.url = url, !.html = html]
            ELSE db[i]]
    ELSE Append(db, Row(name, url, html, NULL, NullLnk, NullLnk))

\* DigiDB.register_digimon: the table afterwards.  The insert names id, name,
\* url and html; every other column keeps its default, NULL.
register_digimon(db, name, url, html) ==
    IF exists_digimon(db, name) # 0 THEN db
    ELSE Append(db, Row(name, url, html, NULL, NullLnk, NullLnk))

\* the id register_digimon returns
registered_id(db, name) ==
    IF exists_digimon(db, name) # 0 THEN exists_digimon(db, name) ELSE Len(db) + 1

\* register_evolution_links that leaves a column unset when its list is empty
register_evolution_links_unset_empty(db, prev, nxt, id) ==
    [i \in RowIds(db) |->
        IF i = id
        THEN [db[i] EXCEPT !.prev_links = IF prev = <<>> THEN NullLnk ELSE Lnk(prev),
                           !.next_links = IF nxt = <<>> THEN NullLnk ELSE Lnk(nxt)]
        ELSE db[i]]

\* an update that appends the new links to the stored ones
register_evolution_links_merge(db, prev, nxt, id) ==
    [i \in RowIds(db) |->
        IF i = id
        THEN [db[i] EXCEPT !.prev_links = Lnk(loads(@) \o prev),
                           !.next_links = Lnk(loads(@) \o nxt)]
        ELSE db[i]]

\* an update that is never run
register_evolution_links_skipped(db, prev, nxt, id) == db

\* DigiDB.register_evolution_links
register_evolution_links(db, prev, nxt, id) ==
    [i \in RowIds(db) |->
        IF i = id THEN [db[i] EXCEPT !.prev_links = Lnk(prev), !.next_links = Lnk(nxt)]
        ELSE db[i]]

\* a get_ref that reports a stored "not a card" record as no record
get_ref_cards_only(rf, url, href) ==
    IF rf[url] = "card" \/ rf[href] = "card" THEN <<TRUE, TRUE>> ELSE <<FALSE, FALSE>>

\* a get_ref that looks for the raw form only
get_ref_raw_only(rf, url, href) ==
    IF rf[href] # NULL THEN <<TRUE, rf[href] = "card">> ELSE <<FALSE, FALSE>>

\* DigiDB.get_ref(quote(href), href): <<exists, is_card>>
get_ref(rf, url, href) ==
    IF rf[url] # NULL THEN <<TRUE, rf[url] = "card">>
    ELSE IF rf[href] # NULL THEN <<TRUE, rf[href] = "card">>
    ELSE <<FALSE, FALSE>>

\* DigiDB.create_ref: insert ... on conflict do nothing
db_create_ref(rf, href, is_card) ==
    IF rf[href] # NULL THEN rf
    ELSE [rf EXCEPT ![href] = IF is_card THEN "card" ELSE "noncard"]

(***************************************************************************)
(* The fetcher and the reference classifier (process.py).  The operators   *)
(* thread a context x through the calls: the refs table, the per-run count *)
(* of create_ref's fetches, the delayed_request and is_cardgame_ref calls  *)
(* of the step, and whether an exception is propagating.  bad is the site whose network     *)
(* request raises in this step (NoSite: none does).                        *)
(***************************************************************************)
Ctx(rf, rfetch) ==
    [refs |-> rf, rfetch |-> rfetch, reqs |-> <<>>, calls |-> <<>>, err |-> FALSE]

Inc(n) == IF n >= 2 THEN 2 ELSE n + 1

\* one call of delayed_request: net is requests.get, slept is time.sleep(1.5)
Req(href, src, net, slept) == [site |-> href, src |-> src, net |-> net, slept |-> slept]

\* the sites whose requests.get returned: the request that raised is the last
Got(reqs, err) ==
    {reqs[j].site : j \in {i \in 1..Len(reqs) : reqs[i].net /\ ~(err /\ i = Len(reqs))}}

\* delayed_request as it would be without the pacing delay
delayed_request_no_sleep(x, db, href, src, bad) ==
    IF get_digimon_html(db, href) # NULL
    THEN [x EXCEPT !.reqs = Append(@, Req(href, src, FALSE, FALSE))]
    ELSE [x EXCEPT !.reqs = Append(@, Req(href, src, TRUE, FALSE)), !.err = (href = bad)]

\* delayed_request: the page cache first; on a miss the delay, then the
\* network.  The context afterwards; the content returned is web[href].
delayed_request(x, db, href, src, bad) ==
    IF get_digimon_html(db, href) # NULL
    THEN [x EXCEPT !.reqs = Append(@, Req(href, src, FALSE, FALSE))]
    ELSE [x EXCEPT !.reqs = Append(@, Req(href, src, TRUE, TRUE)), !.err = (href = bad)]

\* create_ref (process.py): fetch, classify, store
create_ref(x, db, w, href, bad) ==
    CHOOSE z \in
       {IF y.err THEN y ELSE [y EXCEPT !.refs = db_create_ref(@, href, w[href].isCard)] :
           y \in {delayed_request([x EXCEPT !.rfetch[href] = Inc(@)], db, href, "ref", bad)}} :
       TRUE

\* is_cardgame_ref as it would be without the test of ASSUME_CARDS_FILLED
is_cardgame_ref_always_fetch(x, db, w, c, href, bad) ==
    LET g == get_ref(x.refs, quote(href), href)
        y == [x EXCEPT !.calls = Append(@, href)]
    IN IF g[1] THEN <<y, g[2]>>
       ELSE <<create_ref(y, db, w, href, bad), w[href].isCard>>

\* is_cardgame_ref: <<context afterwards, is_card>>
is_cardgame_ref(x, db, w, c, href, bad) ==
    LET g == get_ref(x.refs, quote(href), href)
        y == [x EXCEPT !.calls = Append(@, href)]
    IN IF g[1] THEN <<y, g[2]>>
       ELSE IF c.assume_cards_filled THEN <<y, FALSE>>
       ELSE <<create_ref(y, db, w, href, bad), w[href].isCard>>

\* "battle-spirits" in real_href.lower()
IsBattleSpirits(href) == href = "/battle-spirits"

\* one turn of the loop of get_ref_data over the "#cite" links of a list item
\* a = [x, only, k]
cite_step(a, db, w, c, cite, bad) ==
    IF a.x.err \/ ~cite.found \/ IsBattleSpirits(cite.href) \/ ~StartsWithSlash(cite.href)
    THEN a
    ELSE CHOOSE y \in
           {IF r[1].err THEN [a EXCEPT !.x = r[1]]
            ELSE IF ~r[2] THEN [x |-> r[1], only |-> FALSE, k |-> a.k + 1]
            ELSE [a EXCEPT !.x = r[1]] :
                r \in {is_cardgame_ref(a.x, db, w, c, cite.href, bad)}} : TRUE

RECURSIVE cite_loop(_, _, _, _, _, _)
cite_loop(a, db, w, c, cites, bad) ==
    IF cites = <<>> THEN a
    ELSE CHOOSE r \in {cite_loop(cite_step(v, db, w, c, Head(cites), bad),
                                 db, w, c, Tail(cites), bad) : v \in {a}} : TRUE

\* get_ref_data: [x, only, k, total]
get_ref_data(x, db, w, c, cites, bad) ==
    CHOOSE y \in
       {[x |-> a.x, only |-> a.only, k |-> a.k, total |-> Len(cites)] :
           a \in {cite_loop([x |-> x, only |-> TRUE, k |-> 0], db, w, c, cites, bad)}} : TRUE

(***************************************************************************)
(* extract_evolutions: one pass over the headings and links.               *)
(***************************************************************************)
\* the scan as it would be if it started in next mode
ScanInit_next(x) ==
    [x |-> x, mode |-> "next", stop |-> FALSE,
     prev_evos_ref |-> <<>>, next_evos_ref |-> <<>>]

ScanInit(x) ==
    [x |-> x, mode |-> "whatever", stop |-> FALSE,
     prev_evos_ref |-> <<>>, next_evos_ref |-> <<>>]

\* one turn of the loop over items
item_step(st, db, w, c, item, bad) ==
    IF st.stop \/ st.x.err THEN st
    ELSE IF item.type = "h2" /\ item.text = FROM THEN [st EXCEPT !.mode = "prev"]
    ELSE IF item.type = "h2" /\ item.text = TO THEN [st EXCEPT !.mode = "next"]
    ELSE IF item.type = "h2" /\ st.mode = "next" THEN [st EXCEPT !.stop = TRUE]
    ELSE IF st.mode = "whatever" \/ item.type # "a" THEN st
    ELSE IF item.text = "card game" THEN st
    ELSE CHOOSE y \in
           {IF d.x.err THEN [st EXCEPT !.x = d.x]
            ELSE IF d.only /\ c.ignore_card_only_refs THEN [st EXCEPT !.x = d.x]
            ELSE IF st.mode = "prev"
                 THEN [st EXCEPT !.x = d.x,
                                 !.prev_evos_ref = Append(@, <<item.href, d.k>>)]
                 ELSE [st EXCEPT !.x = d.x,
                                 !.next_evos_ref = Append(@, <<item.href, d.k>>)] :
                d \in {get_ref_data(st.x, db, w, c, item.cites, bad)}} : TRUE

RECURSIVE item_loop(_, _, _, _, _, _)
item_loop(st, db, w, c, items, bad) ==
    IF items = <<>> THEN st
    ELSE CHOOSE r \in {item_loop(item_step(v, db, w, c, Head(items), bad),
                                 db, w, c, Tail(items), bad) : v \in {st}} : TRUE

RECURSIVE Hrefs(_)
Hrefs(pairs) == IF pairs = <<>> THEN <<>> ELSE <<Head(pairs)[1]>> \o Hrefs(Tail(pairs))

\* the threshold without the exception for short lists
accepted_no_bypass(evos_ref, c) ==
    LET Keep(p) == p[2] >= c.min_references
    IN Hrefs(SelectSeq(evos_ref, Keep))

\* [x[0] for x in evos_ref if x[1] >= MIN_REFERENCES or len(evos_ref) <= LOW_EVO_COUNT]
accepted(evos_ref, c) ==
    LET Keep(p) == p[2] >= c.min_references \/ Len(evos_ref) <= c.low_evo_count
    IN Hrefs(SelectSeq(evos_ref, Keep))

\* extract_evolutions: [x, prev, next, prev_evos_ref, next_evos_ref]
extract_evolutions(x, db, w, c, items, bad) ==
    CHOOSE y \in
       {[x |-> st.x,
         prev |-> accepted(st.prev_evos_ref, c),
         next |-> accepted(st.next_evos_ref, c),
         prev_evos_ref |-> st.prev_evos_ref,
         next_evos_ref |-> st.next_evos_ref] :
           st \in {item_loop(ScanInit(x), db, w, c, items, bad)}} : TRUE

(***************************************************************************)
(* The seeds of the resume and refill modes.                               *)
(***************************************************************************)
RECURSIVE Distinct(_)
Distinct(q) ==
    IF q = <<>> THEN <<>>
    ELSE CHOOSE y \in
           {IF \E i \in 1..Len(r) : r[i] = q[Len(q)] THEN r ELSE Append(r, q[Len(q)]) :
               r \in {Distinct(SubSeq(q, 1, Len(q) - 1))}} : TRUE

RECURSIVE PrevOfRows(_, _)
PrevOfRows(db, i) ==
    IF i > Len(db) THEN <<>> ELSE loads(db[i].prev_links) \o PrevOfRows(db, i + 1)

RECURSIVE NextOfRows(_, _)
NextOfRows(db, i) ==
    IF i > Len(db) THEN <<>> ELSE loads(db[i].next_links) \o NextOfRows(db, i + 1)

\* get_unscraped_links that asks DigiDB.scraped about every link
get_unscraped_links_by_scraped(db, led) ==
    LET Unscraped(s) == ~scraped(db, led, s)
    IN SelectSeq(Distinct(PrevOfRows(db, 1) \o NextOfRows(db, 1)), Unscraped)

\* DigiDB.get_unscraped_links
get_unscraped_links(db, led) ==
    LET all_links == Distinct(PrevOfRows(db, 1) \o NextOfRows(db, 1))
        all_scrapes == {s \in Sites : led[s] > 0}
                       \cup {db[i].url : i \in {j \in RowIds(db) : db[j].scraped = "1"}}
        Unscraped(s) == s \notin all_scrapes
    IN SelectSeq(all_links, Unscraped)

RECURSIVE UrlsOf(_)
UrlsOf(rows) == IF rows = <<>> THEN <<>> ELSE <<Head(rows).url>> \o UrlsOf(Tail(rows))

\* DigiDB.get_digimon_urls_without_links
get_digimon_urls_without_links(db) ==
    LET NoLinks(r) == r.prev_links.null /\ r.next_links.null
    IN UrlsOf(SelectSeq(db, NoLinks))

(***************************************************************************)
(* The crawl.                                                              *)
(***************************************************************************)
\* for link in links: if not ddb.scraped(link): sites.append(link)
\* the pushes without the test of ddb.scraped(link)
unscraped_of_all(db, led, links) == links

\* [link for link in links if not ddb.scraped(link)]
unscraped_of(db, led, links) ==
    LET Unvisited(l) == ~scraped(db, led, l) IN SelectSeq(links, Unvisited)

NoEv == [op |-> "none", reqs |-> <<>>, calls |-> <<>>, evo |-> NoSite, pushed |-> <<>>,
         marked |-> NoSite]

Ev(op, reqs, evo, pushed, marked) ==
    [op |-> op, reqs |-> reqs, calls |-> <<>>, evo |-> evo, pushed |-> pushed,
     marked |-> marked]

ZeroCount == [s \in Sites |-> 0]

\* the record of a run: empty is whether it opened a store without rows
Run(m, start) == [mode |-> m, start |-> start, how |-> "running", left |-> <<>>,
                  at |-> NoSite,
                  empty |-> (digimon = <<>> /\ ledger = ZeroCount),
                  digimon |-> <<>>, ledger |-> ZeroCount]

\* the run ends: its record keeps how it ended, the sites that were still on
\* the frontier or among the seeds, the site get_evo_links was working on, and
\* the store it left
EndRun(how) ==
    /\ hist' = [hist EXCEPT ![Len(hist)] =
                   [@ EXCEPT !.how = how, !.left = seeds \o sites,
                             !.at = IF pc \in {"evo", "extract"} THEN site ELSE NoSite,
                             !.digimon = digimon', !.ledger = ledger']]
    /\ pc' = "idle"
    /\ seeds' = <<>>
    /\ sites' = <<>>
    /\ site' = NoSite
    /\ cur' = NoDigimon

StartSites == {"/A", "/B"}

\* __main__ without --resume and --refill: recurse_search(args.start_page)
StartFresh(start) ==
    /\ pc = "idle"
    /\ Len(hist) < MaxRuns
    /\ hist' = Append(hist, Run("fresh", start))
    /\ mode' = "fresh"
    /\ sites' = <<start>>
    /\ seeds' = <<>>
    /\ pc' = "pop"
    /\ refFetch' = ZeroCount
    /\ ev' = Ev("start", <<>>, NoSite, <<>>, NoSite)
    /\ UNCHANGED <<web, cfg, digimon, ledger, refs, site, cur, nfail, fetched>>

\* resume_scrape: the rows of get_unscraped_links, computed once
StartResume ==
    /\ pc = "idle"
    /\ Len(hist) < MaxRuns
    /\ hist' = Append(hist, Run("resume", NoSite))
    /\ mode' = "resume"
    /\ seeds' = get_unscraped_links(digimon, ledger)
    /\ sites' = <<>>
    /\ pc' = "seed"
    /\ refFetch' = ZeroCount
    /\ ev' = Ev("start", <<>>, NoSite, <<>>, NoSite)
    /\ UNCHANGED <<web, cfg, digimon, ledger, refs, site, cur, nfail, fetched>>

\* refill_links: the rows of get_digimon_urls_without_links, computed once
StartRefill ==
    /\ pc = "idle"
    /\ Len(hist) < MaxRuns
    /\ hist' = Append(hist, Run("refill", NoSite))
    /\ mode' = "refill"
    /\ seeds' = get_digimon_urls_without_links(digimon)
    /\ sites' = <<>>
    /\ pc' = "seed"
    /\ refFetch' = ZeroCount
    /\ ev' = Ev("start", <<>>, NoSite, <<>>, NoSite)
    /\ UNCHANGED <<web, cfg, digimon, ledger, refs, site, cur, nfail, fetched>>

\* for row in ...: recurse_search(row); the run ends after the last row
NextSeed ==
    /\ pc = "seed"
    /\ IF seeds = <<>>
       THEN /\ UNCHANGED <<digimon, ledger>>
            /\ EndRun("done")
       ELSE /\ sites' = <<Head(seeds)>>
            /\ seeds' = Tail(seeds)
            /\ pc' = "pop"
            /\ UNCHANGED <<digimon, ledger, site, cur, hist>>
    /\ ev' = Ev("seed", <<>>, NoSite, <<>>, NoSite)
    /\ UNCHANGED <<web, cfg, refs, mode, refFetch, nfail, fetched>>

\* while sites: false.  recurse_search returns.
Return ==
    /\ pc = "pop"
    /\ sites = <<>>
    /\ IF mode = "fresh"
       THEN /\ UNCHANGED <<digimon, ledger>>
            /\ EndRun("done")
       ELSE /\ pc' = "seed"
            /\ site' = NoSite
            /\ cur' = NoDigimon
            /\ UNCHANGED <<digimon, ledger, seeds, sites, hist>>
    /\ ev' = Ev("return", <<>>, NoSite, <<>>, NoSite)
    /\ UNCHANGED <<web, cfg, refs, mode, refFetch, nfail, fetched>>

Top(q) == q[Len(q)]
Pop(q) == SubSeq(q, 1, Len(q) - 1)

\* site = sites.pop(), and the branch of a site that is scraped
PopVisited ==
    /\ pc = "pop"
    /\ sites # <<>>
    /\ scraped(digimon, ledger, Top(sites))
    /\ LET s == Top(sites)
           i == digimon_by_site(digimon, s)
           d == ScrapeDigimon(digimon, i)
           pushed == IF i = 0 THEN <<>>
                     ELSE unscraped_of(digimon, ledger, d.prev_links \o d.next_links)
       IN /\ site' = s
          /\ cur' = IF i = 0 THEN NoDigimon ELSE d
          /\ sites' = Pop(sites) \o pushed
          /\ ev' = Ev("visited", <<>>, NoSite, pushed, NoSite)
    /\ UNCHANGED <<web, cfg, digimon, ledger, refs, pc, mode, seeds, refFetch, nfail, fetched, hist>>

\* site = sites.pop(), and the site is not scraped: get_evo_links comes next
PopUnvisited ==
    /\ pc = "pop"
    /\ sites # <<>>
    /\ ~scraped(digimon, ledger, Top(sites))
    /\ site' = Top(sites)
    /\ sites' = Pop(sites)
    /\ cur' = NoDigimon
    /\ pc' = "evo"
    /\ ev' = Ev("pop", <<>>, NoSite, <<>>, NoSite)
    /\ UNCHANGED <<web, cfg, digimon, ledger, refs, mode, seeds, refFetch, nfail, fetched, hist>>

\* the title of get_evo_links: a trailing "/" is cut
title(raw) == IF raw = "A/" THEN "A" ELSE raw

\* the targets a step of extraction may ask the network for
Targets == {"/T1", "/T2", "/T 3", "/T%203", "/B"}

\* get_evo_links, up to the commit of register_digimon
GetEvoLinks ==
    /\ pc = "evo"
    /\ IF ~StartsWithSlash(site)
       THEN /\ cur' = NoDigimon
            /\ pc' = "mark"
            /\ ev' = Ev("evo", <<>>, site, <<>>, NoSite)
            /\ UNCHANGED <<digimon, ledger, nfail, fetched, hist, seeds, sites, site>>
       ELSE IF scraped(digimon, ledger, site)
       THEN /\ cur' = IF digimon_by_site(digimon, site) = 0 THEN NoDigimon
                      ELSE ScrapeDigimon(digimon, digimon_by_site(digimon, site))
            /\ pc' = "mark"
            /\ ev' = Ev("evo", <<>>, site, <<>>, NoSite)
            /\ UNCHANGED <<digimon, ledger, nfail, fetched, hist, seeds, sites, site>>
       ELSE \E bad \in {NoSite, site} :
            LET x == delayed_request(Ctx(refs, refFetch), digimon, site, "crawl", bad)
                page == web[site]
                name == title(page.heading)
            IN /\ bad = NoSite \/ x.err
               /\ ev' = Ev("evo", x.reqs, site, <<>>, NoSite)
               /\ fetched' = fetched \cup Got(x.reqs, x.err)
               /\ IF x.err
                  THEN /\ nfail < MaxFail
                       /\ nfail' = nfail + 1
                       /\ digimon' = digimon
                       /\ ledger' = ledger_on_raise(ledger, site)
                       /\ EndRun("error")
                  ELSE IF ~page.isDigimon
                  THEN /\ cur' = NoDigimon
                       /\ pc' = "mark"
                       /\ UNCHANGED <<digimon, ledger, nfail, hist, seeds, sites, site>>
                  ELSE /\ digimon' = register_digimon(digimon, name, site, text_of(site))
                       /\ cur' = [id |-> registered_id(digimon, name), name |-> name,
                                  url |-> site, prev_links |-> <<>>, next_links |-> <<>>]
                       /\ pc' = "extract"
                       /\ UNCHANGED <<ledger, nfail, hist, seeds, sites, site>>
    /\ UNCHANGED <<web, cfg, refs, mode, refFetch>>

\* get_evo_links, from extract_evolutions to the commit of register_evo_links
Extract ==
    /\ pc = "extract"
    /\ \E bad \in {NoSite} \cup Targets :
       \E r \in {extract_evolutions(Ctx(refs, refFetch), digimon, web, cfg,
                                    web[site].items, bad)} :
          /\ bad = NoSite \/ r.x.err
          /\ refs' = r.x.refs
          /\ refFetch' = r.x.rfetch
          /\ ev' = [Ev("extract", r.x.reqs, NoSite, <<>>, NoSite) EXCEPT !.calls = r.x.calls]
          /\ fetched' = fetched \cup Got(r.x.reqs, r.x.err)
          /\ IF r.x.err
             THEN /\ nfail < MaxFail
                  /\ nfail' = nfail + 1
                  /\ digimon' = digimon
                  /\ ledger' = ledger_on_raise(ledger, site)
                  /\ EndRun("error")
             ELSE /\ digimon' = register_evolution_links(digimon, r.prev, r.next, cur.id)
                  /\ cur' = [cur EXCEPT !.prev_links = r.prev, !.next_links = r.next]
                  /\ pc' = "mark"
                  /\ UNCHANGED <<ledger, nfail, hist, seeds, sites, site>>
    /\ UNCHANGED <<web, cfg, mode>>

\* the ledger counts the rows of a site up to MaxLedger
Capped(led) == [s \in Sites |-> IF led[s] > MaxLedger THEN MaxLedger ELSE led[s]]

\* ddb.mark_scraped(site), then the pushes of the unscraped links
Mark ==
    /\ pc = "mark"
    /\ ledger' = Capped(mark_scraped(ledger, site))
    /\ LET pushed == IF cur.id = 0 THEN <<>>
                     ELSE unscraped_of(digimon, ledger', cur.prev_links)
                          \o unscraped_of(digimon, ledger', cur.next_links)
       IN /\ sites' = sites \o pushed
          /\ ev' = Ev("mark", <<>>, NoSite, pushed, site)
    /\ pc' = "pop"
    /\ UNCHANGED <<web, cfg, digimon, refs, mode, seeds, site, cur, refFetch, nfail, fetched, hist>>

\* the process is killed
Abort ==
    /\ pc \in {"seed", "pop", "evo", "extract", "mark"}
    /\ UNCHANGED <<digimon, ledger>>
    /\ EndRun("aborted")
    /\ ev' = Ev("abort", <<>>, NoSite, <<>>, NoSite)
    /\ UNCHANGED <<web, cfg, refs, mode, refFetch, nfail, fetched>>

(***************************************************************************)
(* The stores a run may open: an empty one, or one that an earlier version *)
(* of the scraper filled: rows without link lists, with the scraped column *)
(* unset, 0 or 1, their sites in table scraped or not.                     *)
(***************************************************************************)
DefaultCfg ==
    [min_references |-> MIN_REFERENCES, low_evo_count |-> LOW_EVO_COUNT,
     ignore_card_only_refs |-> TRUE, assume_cards_filled |-> FALSE]

RECURSIVE LegacyRows(_, _, _)
LegacyRows(w, q, flag) ==
    IF q = <<>> THEN <<>>
    ELSE LET db == LegacyRows(w, SubSeq(q, 1, Len(q) - 1), flag)
             s == q[Len(q)]
             name == title(w[s].heading)
         IN IF exists_digimon(db, name) # 0 THEN db
            ELSE Append(db, Row(name, s, text_of(s), flag, NullLnk, NullLnk))

LegacySites == <<"/A", "/B">>

Stores(w) ==
    {[digimon |-> <<>>, ledger |-> ZeroCount]}
    \cup {[digimon |-> LegacyRows(w, LegacySites, flag),
           ledger |-> [s \in Sites |-> IF inLedger /\ s \in {"/A", "/B"} THEN 1 ELSE 0]] :
            flag \in {NULL, "0", "1"}, inLedger \in BOOLEAN}

Init ==
    /\ web \in Webs
    /\ cfg = DefaultCfg
    /\ \E st \in Stores(web) : digimon = st.digimon /\ ledger = st.ledger
    /\ refs = [u \in Urls |-> NULL]
    /\ pc = "idle"
    /\ mode = "none"
    /\ seeds = <<>>
    /\ sites = <<>>
    /\ site = NoSite
    /\ cur = NoDigimon
    /\ ev = NoEv
    /\ refFetch = ZeroCount
    /\ nfail = 0
    /\ fetched = {}
    /\ hist = <<>>

Next ==
    \/ \E start \in StartSites : StartFresh(start)
    \/ StartResume
    \/ StartRefill
    \/ NextSeed
    \/ Return
    \/ PopVisited
    \/ PopUnvisited
    \/ GetEvoLinks
    \/ Extract
    \/ Mark
    \/ Abort

Spec == Init /\ [][Next]_vars

\* The process is single-threaded and synchronous: while a run is under way and
\* is not killed, its next step is taken.
(***************************************************************************)
(* extract_evolutions on its own: the documents are the sequences of at    *)
(* most MaxItems headings and links, the j-th node linking to Cand(j), and *)
(* the configuration is what the command line can set.                     *)
(***************************************************************************)
Cand(j) == IF j = 1 THEN "/B" ELSE IF j = 2 THEN "/C" ELSE IF j = 3 THEN "/D"
           ELSE IF j = 4 THEN "/T1" ELSE "ext"

CiteLists ==
    {<<>>, <<Cite("/T1")>>, <<Cite("/T1"), Cite("/T 3")>>, <<Cite("/T2")>>,
     <<Cite("/T1"), Cite("/T2")>>, <<Cite("/battle-spirits")>>, <<CiteNoEntry>>}

ItemKinds(j) ==
    {H(FROM), H(TO), H(OTHER_H), ACardGame(Cand(j), <<>>)}
    \cup {A(Cand(j), c) : c \in CiteLists}

RECURSIVE DocsOfLen(_)
DocsOfLen(n) ==
    IF n = 0 THEN {<<>>}
    ELSE {Append(d, it) : d \in DocsOfLen(n - 1), it \in ItemKinds(n)}

Docs == UNION {DocsOfLen(n) : n \in 0..MaxItems}

WebDoc(items) ==
    [s \in Sites |-> IF s = "/A" THEN Page(TRUE, FALSE, "A", items) ELSE BasePage(s)]

LowEvoCounts == {1, LOW_EVO_COUNT}

\* ASSUME_CARDS_FILLED is a constant of the module that is edited by hand
Cfgs ==
    {[min_references |-> MIN_REFERENCES, low_evo_count |-> l,
      ignore_card_only_refs |-> i, assume_cards_filled |-> FALSE] :
        l \in LowEvoCounts, i \in BOOLEAN}
    \cup {[min_references |-> MIN_REFERENCES, low_evo_count |-> LOW_EVO_COUNT,
            ignore_card_only_refs |-> i, assume_cards_filled |-> TRUE] : i \in BOOLEAN}

\* the refs table before the scan: empty, or left by an earlier run that
\* fetched the card page /T2 and the page "/T 3"
RefStores ==
    {[u \in Urls |-> NULL],
     db_create_ref(db_create_ref([u \in Urls |-> NULL], "/T2", TRUE), "/T 3", FALSE)}

InitExtract ==
    /\ web \in {WebDoc(d) : d \in Docs}
    /\ cfg \in Cfgs
    /\ digimon = <<>>
    /\ ledger = ZeroCount
    /\ refs \in RefStores
    /\ pc = "doc"
    /\ mode = "none"
    /\ seeds = <<>>
    /\ sites = <<>>
    /\ site = "/A"
    /\ cur = NoDigimon
    /\ ev = NoEv
    /\ refFetch = ZeroCount
    /\ nfail = 0
    /\ fetched = {}
    /\ hist = <<>>

\* what the scan did: the requests, the calls of is_cardgame_ref and the two
\* lists of (href, ref_count) before the threshold
Scan(r) ==
    [op |-> "scan", reqs |-> r.x.reqs, calls |-> r.x.calls, evo |-> "/A",
     pushed |-> <<>>, marked |-> NoSite,
     prev_evos_ref |-> r.prev_evos_ref, next_evos_ref |-> r.next_evos_ref]

\* prev_evos, next_evos = extract_evolutions(soup)
ExtractDoc ==
    /\ pc = "doc"
    /\ \E r \in {extract_evolutions(Ctx(refs, refFetch), digimon, web, cfg,
                                     web[site].items, NoSite)} :
          /\ refs' = r.x.refs
          /\ refFetch' = r.x.rfetch
          /\ ev' = Scan(r)
          /\ fetched' = fetched \cup Got(r.x.reqs, r.x.err)
          /\ cur' = [id |-> 0, name |-> title(web[site].heading), url |-> site,
                     prev_links |-> r.prev, next_links |-> r.next]
    /\ pc' = "scanned"
    /\ UNCHANGED <<web, cfg, digimon, ledger, mode, seeds, sites, site, nfail, hist>>

NextExtract == ExtractDoc

SpecExtract == InitExtract /\ [][NextExtract]_vars

CrawlStep ==
    \/ NextSeed
    \/ Return
    \/ PopVisited
    \/ PopUnvisited
    \/ GetEvoLinks
    \/ Extract
    \/ Mark

FairSpec == Spec /\ WF_vars(CrawlStep)

(***************************************************************************)
(* The claims.                                                             *)
(***************************************************************************)
InLedger(s) == ledger[s] > 0
FlagOf(s, flag) == \E i \in RowIds(digimon) : digimon[i].url = s /\ digimon[i].scraped = flag

\* the spec's "marked visited": in the Visitation Ledger, or Entity.scraped = true
MarkedVisited(s) == InLedger(s) \/ FlagOf(s, "1")

\* the step runs get_evo_links on s, or get_evo_links fetches s in it
Revisits(e, s) ==
    \/ e.evo = s
    \/ \E j \in 1..Len(e.reqs) : e.reqs[j].src = "crawl" /\ e.reqs[j].site = s

ReportedScraped(s) == (InLedger(s) /\ ~FlagOf(s, "0")) \/ FlagOf(s, "1")

C2_FailureEndsOnlyTheSite ==
    \A i \in 1..Len(hist) : hist[i].how = "error" => hist[i].left = <<>>

\* C3: over a finite set of pages whose links may form cycles, a crawl that
\* was started empties its frontier and stops.
C3_CrawlTerminates ==
    (pc # "idle") ~> (pc = "idle")

\* what one uninterrupted crawl over the pages w records for site s
PageLinks(w, s) ==
    CHOOSE y \in {r.prev \o r.next :
                   r \in {extract_evolutions(Ctx([u \in Urls |-> NULL], ZeroCount), <<>>, w,
                                             DefaultCfg, w[s].items, NoSite)}} : TRUE

IsCreature(w, s) == StartsWithSlash(s) /\ w[s].isDigimon

Range(q) == {q[j] : j \in 1..Len(q)}

\* the sites an uninterrupted fresh crawl from start visits
RECURSIVE Reach(_, _)
Reach(w, R) ==
    CHOOSE y \in {IF R2 = R THEN R ELSE Reach(w, R2) :
                   R2 \in {R \cup UNION {Range(PageLinks(w, s)) :
                                           s \in {t \in R : IsCreature(w, t)}}}} : TRUE

LedgerSet(led) == {s \in Sites : led[s] > 0}

\* C8: a second fresh crawl from the same start over the same pages leaves the
\* Entity rows, their link lists and the Ledger as the first one left them.
C8_SecondRunChangesNothing ==
    \A i \in 1..(Len(hist) - 1) :
        ( /\ hist[i].mode = "fresh" /\ hist[i].how = "done"
          /\ hist[i + 1].mode = "fresh" /\ hist[i + 1].how = "done"
          /\ hist[i + 1].start = hist[i].start )
        => /\ hist[i + 1].digimon = hist[i].digimon
           /\ hist[i + 1].ledger = hist[i].ledger

\* the first run processed /A, recorded its next-links /B and /C and marked it,
\* and stopped before /B or /C were visited; the second run is a resume
C9_Scenario ==
    /\ Len(hist) = 2
    /\ hist[1].mode = "fresh" /\ hist[1].start = "/A" /\ hist[1].how = "aborted"
    /\ hist[1].ledger["/A"] > 0
    /\ \E i \in RowIds(hist[1].digimon) :
          /\ hist[1].digimon[i].url = "/A"
          /\ hist[1].digimon[i].next_links = Lnk(<<"/B", "/C">>)
    /\ \A s \in {"/B", "/C"} :
          /\ hist[1].ledger[s] = 0
          /\ \A i \in RowIds(hist[1].digimon) :
                hist[1].digimon[i].url = s => hist[1].digimon[i].scraped # "1"
    /\ hist[2].mode = "resume"

\* C9: in that scenario the resume run never processes /A again, and when it
\* has returned /B, /C and the sites reachable from them are visited.
C9_ResumeRecovers ==
    C9_Scenario =>
        /\ ev.evo # "/A"
        /\ hist[2].how = "done" => Reach(web, {"/B", "/C"}) \subseteq LedgerSet(ledger)

\* C10: a fresh crawl that was killed and then run again to completion from
\* the same start, on a store that was empty, leaves the visited sites and the
\* link lists of one uninterrupted run.
C10_CrashThenRerunEqualsOneRun ==
    ( /\ Len(hist) = 2
      /\ hist[1].mode = "fresh" /\ hist[1].empty /\ hist[1].how = "aborted"
      /\ hist[2].mode = "fresh" /\ hist[2].start = hist[1].start
      /\ hist[2].how = "done" /\ nfail = 0 )
    => /\ LedgerSet(ledger) = Reach(web, {hist[1].start})
       /\ \A i \in RowIds(digimon) :
             (\A t \in Sites : IsCreature(web, t) /\ title(web[t].heading) = digimon[i].name
                               => t = digimon[i].url)
             => /\ ~digimon[i].prev_links.null
                /\ loads(digimon[i].prev_links) \o loads(digimon[i].next_links)
                      = PageLinks(web, digimon[i].url)

\* The document scanned is one "evolves to" heading followed by links only.
NextList ==
    /\ pc = "scanned"
    /\ Len(web["/A"].items) >= 2
    /\ web["/A"].items[1] = H(TO)
    /\ \A j \in 2..Len(web["/A"].items) :
          web["/A"].items[j].type = "a" /\ web["/A"].items[j].text = "name"

NextCands == 2..Len(web["/A"].items)

\* totalCitations and nonCardCount of the j-th node, as the specification
\* defines them
totalCitations(j) == Len(web["/A"].items[j].cites)

IsNonCardCitation(c) ==
    /\ c.found
    /\ StartsWithSlash(c.href)
    /\ ~IsBattleSpirits(c.href)
    /\ ~web[c.href].isCard

nonCardCount(j) ==
    Cardinality({i \in 1..totalCitations(j) : IsNonCardCitation(web["/A"].items[j].cites[i])})

Accepted(j) == \E i \in 1..Len(cur.next_links) : cur.next_links[i] = web["/A"].items[j].href

\* C4: a candidate whose citations are all card-only is rejected when the
\* filter is on; any other candidate is accepted iff its non-card count k is
\* at least minReferences or its direction has at most lowEvoThreshold
\* candidates.
C4_ThresholdCorrect ==
    NextList =>
        \A j \in NextCands :
            IF cfg.ignore_card_only_refs /\ totalCitations(j) > 0 /\ nonCardCount(j) = 0
            THEN ~Accepted(j)
            ELSE Accepted(j) <=> \/ nonCardCount(j) >= cfg.min_references
                                 \/ Cardinality(NextCands) <= cfg.low_evo_count

\* C5: a candidate without any citation is not dropped by the card-only
\* filter: it is accepted when its direction has at most lowEvoThreshold
\* candidates.
C5_NoCitationNotDropped ==
    NextList =>
        \A j \in NextCands :
            (totalCitations(j) = 0 /\ Cardinality(NextCands) <= cfg.low_evo_count)
            => Accepted(j)

NetReqs(e) == {j \in 1..Len(e.reqs) : e.reqs[j].net}

\* C11: no site is requested from the network after the network has served it
\* once, be it as a crawled page or as a citation target, in this run or in an
\* earlier run on the same store.
C11_NoSecondNetworkRequest ==
    [][\A j \in NetReqs(ev') :
          /\ ev'.reqs[j].site \notin fetched
          /\ \A i \in NetReqs(ev') : ev'.reqs[i].site = ev'.reqs[j].site => i = j]_vars

\* C12: after recurse_search has processed a popped unvisited site without an
\* error, the site is in the Ledger, whether it became an Entity or was found
\* not to be a creature page.
C12_ProcessedSiteInLedger ==
    ev.op = "mark" => InLedger(site) /\ ev.marked = site

\* a page that is not a creature page was processed and is in the Ledger
C12_Witness ==
    /\ ev.op = "mark"
    /\ StartsWithSlash(site) /\ ~web[site].isDigimon
    /\ digimon_by_site(digimon, site) = 0
    /\ InLedger(site)

\* a run was ended by a failure or a kill while get_evo_links was working on
\* the site at
Interrupted(r) == r.how \in {"error", "aborted"} /\ r.at # NoSite

\* C13: a site whose attempt failed or was cut off is not put in the Ledger by
\* that attempt, and the next run, when it completes, has attempted it again.
C13_NextRunAttemptsAgain ==
    /\ \A i \in 1..Len(hist) :
          (Interrupted(hist[i]) /\ i > 1) => hist[i].ledger[hist[i].at] = hist[i - 1].ledger[hist[i].at]
    /\ \A i \in 1..(Len(hist) - 1) :
          ( /\ Interrupted(hist[i]) /\ hist[i].ledger[hist[i].at] = 0
            /\ hist[i + 1].how = "done" )
          => hist[i + 1].ledger[hist[i].at] > 0

\* C13 (amended): table scraped gets a row for a site only in the step that
\* follows its completed attempt, and a site whose attempt failed or was cut
\* off is still not scraped for DigiDB.scraped, so a run that pops it attempts
\* it again.
C13_InterruptedSiteStaysEligible ==
    [][/\ \A s \in Sites : ledger'[s] # ledger[s] => (pc = "mark" /\ site = s)
       /\ (pc \in {"evo", "extract"} /\ pc' = "idle") => ~scraped(digimon', ledger', site)
       /\ ( /\ pc = "pop" /\ sites # <<>>
            /\ ~scraped(digimon, ledger, Top(sites)) /\ pc' # "idle" )
          => (pc' = "evo" /\ site' = Top(sites))]_vars

\* the fetch of a site failed in the first run, and the second run attempts it
C13_Witness ==
    /\ Len(hist) = 2
    /\ hist[1].how = "error"
    /\ hist[1].at # NoSite
    /\ hist[1].ledger[hist[1].at] = 0
    /\ ev.op = "evo"
    /\ ev.evo = hist[1].at
    /\ NetReqs(ev) # {}

\* C14: a failure to fetch one citation target is caught for that citation
\* alone: extraction completes and the crawl goes on to mark the page.
C14_CitationFailureCaught ==
    ev.op = "extract" => pc = "mark"

\* C15: a creature page whose extraction accepted no edge has empty, not
\* unset, link lists stored, is in the Ledger once marked, and is not among
\* the seeds of Refill.
C15_EmptyListsAreStored ==
    (pc = "mark" \/ ev.op = "mark") /\ cur.id # 0 /\ cur.prev_links = <<>> /\ cur.next_links = <<>>
    => /\ digimon[cur.id].prev_links = Lnk(<<>>)
       /\ digimon[cur.id].next_links = Lnk(<<>>)
       /\ ev.op = "mark" => InLedger(site)
       /\ digimon[cur.id].url \notin Range(get_digimon_urls_without_links(digimon))

\* a creature page without accepted edges has been processed and marked
C15_Witness ==
    /\ ev.op = "mark"
    /\ cur.id # 0
    /\ cur.url = site
    /\ cur.prev_links = <<>> /\ cur.next_links = <<>>
    /\ digimon[cur.id].prev_links = Lnk(<<>>)
    /\ InLedger(site)

\* C16: after a Refill run without failure no Entity has both link lists
\* unset, Entities whose site was marked visited before included.
C16_RefillLeavesNoUnsetLists ==
    \A i \in 1..Len(hist) :
        (hist[i].mode = "refill" /\ hist[i].how = "done")
        => get_digimon_urls_without_links(hist[i].digimon) = <<>>

Count(q, v) == Cardinality({j \in 1..Len(q) : q[j] = v})

AllLinks(db) == Range(PrevOfRows(db, 1) \o NextOfRows(db, 1))

NoRepeats(q) == \A i, j \in 1..Len(q) : q[i] = q[j] => i = j

\* resume_scrape has just computed its seeds
ResumeStarted == pc = "seed" /\ mode = "resume" /\ ev.op = "start"

\* C17: the seeds of Resume are, without repeats, the links of the Entities'
\* link lists for which DigiDB.scraped is false.
C17_SeedsAreUnscrapedLinks ==
    ResumeStarted =>
        /\ NoRepeats(seeds)
        /\ Range(seeds) = {l \in AllLinks(digimon) : ~scraped(digimon, ledger, l)}

\* C17 (amended): the seeds of Resume are, without repeats, the links of the
\* Entities' link lists that are neither in the Ledger nor the site of an
\* Entity row with scraped = 1.
C17_SeedsAreLinksNotInLedgerNorFlagged ==
    ResumeStarted =>
        /\ NoRepeats(seeds)
        /\ Range(seeds) = {l \in AllLinks(digimon) : ~InLedger(l) /\ ~FlagOf(l, "1")}

\* Resume starts with a seed, and leaves out a link that is in the Ledger
\* though DigiDB.scraped is false for it
C17_Witness ==
    /\ ResumeStarted
    /\ seeds # <<>>
    /\ \E l \in AllLinks(digimon) :
          InLedger(l) /\ ~scraped(digimon, ledger, l) /\ l \notin Range(seeds)

\* C18: no two Entity rows have the same name.
C18_NamesAreUnique ==
    \A i, j \in RowIds(digimon) : digimon[i].name = digimon[j].name => i = j

\* the page /B, whose name is that of the row of /A, has been registered
C18_Witness ==
    /\ pc = "extract"
    /\ site = "/B"
    /\ title(web["/B"].heading) = "A"
    /\ Len(digimon) = 1
    /\ digimon[1].url = "/A"
    /\ cur.id = 1

\* C19: an Entity row keeps its id, its siteId and its cachedContent through
\* every step.
C19_RowIdentityNeverChanges ==
    [][\A i \in RowIds(digimon) :
          /\ i \in RowIds(digimon')
          /\ digimon'[i].url = digimon[i].url
          /\ digimon'[i].html = digimon[i].html]_vars

\* the links of a second page of the same name were stored in the row, which
\* still has the site and the content of the first page
C19_Witness ==
    /\ pc = "mark"
    /\ site = "/B"
    /\ cur.id # 0
    /\ digimon[cur.id].url = "/A"
    /\ digimon[cur.id].html = text_of("/A")
    /\ digimon[cur.id].next_links = Lnk(<<"/C">>)

HasRecord(t) == refs[t] # NULL \/ refs[quote(t)] # NULL

StoredIsCard(t) == IF refs[quote(t)] # NULL THEN refs[quote(t)] = "card" ELSE refs[t] = "card"

\* C20: once refs holds a record for t under its raw or its percent-encoded
\* form, is_cardgame_ref(t) returns the stored value without a request and
\* without a write, no step requests t as a citation target, and no step
\* changes a stored classification.
C20_ClassificationWriteOnce ==
    /\ [](\A t \in Sites : HasRecord(t) =>
            \E r \in {is_cardgame_ref(Ctx(refs, refFetch), digimon, web, cfg, t, NoSite)} :
                r[2] = StoredIsCard(t) /\ r[1].reqs = <<>> /\ r[1].refs = refs)
    /\ [][/\ \A u \in Urls : refs[u] # NULL => refs'[u] = refs[u]
          /\ \A j \in 1..Len(ev'.reqs) :
                ev'.reqs[j].src = "ref" => ~HasRecord(ev'.reqs[j].site)]_vars

\* a step classified a citation of /T1 from the record an earlier run stored
C20_Witness ==
    /\ ev.op = "extract"
    /\ Count(ev.calls, "/T1") >= 1
    /\ refFetch["/T1"] = 0
    /\ refs["/T1"] = "noncard"
    /\ Len(hist) = 2

\* The document scanned is the heading h followed by links only, and the
\* classification of every citation is the one of the page it cites.
ListUnder(h) ==
    /\ pc = "scanned"
    /\ ~cfg.assume_cards_filled
    /\ Len(web["/A"].items) >= 2
    /\ web["/A"].items[1] = H(h)
    /\ \A j \in 2..Len(web["/A"].items) :
          web["/A"].items[j].type = "a" /\ web["/A"].items[j].text = "name"

LinksOf(h) == IF h = FROM THEN cur.prev_links ELSE cur.next_links

AcceptedIn(h, j) == \E i \in 1..Len(LinksOf(h)) : LinksOf(h)[i] = web["/A"].items[j].href

\* the card-only filter, as the code applies it, drops the j-th node
Dropped(j) == cfg.ignore_card_only_refs /\ nonCardCount(j) = 0

Kept == {i \in NextCands : ~Dropped(i)}

Items == web["/A"].items

LastMatch(j) ==
    LET M == {a \in 1..(j - 1) : Items[a] \in {H(FROM), H(TO)}}
    IN IF M = {} THEN 0 ELSE CHOOSE a \in M : \A b \in M : b <= a

ModeBefore(j) ==
    IF LastMatch(j) = 0 THEN "whatever"
    ELSE IF Items[LastMatch(j)] = H(FROM) THEN "prev" ELSE "next"

IsOtherHeading(b) == Items[b].type = "h2" /\ Items[b] \notin {H(FROM), H(TO)}

\* a non-matching heading was met in next mode before the j-th node
Ended(j) == \E b \in 1..(j - 1) : IsOtherHeading(b) /\ ModeBefore(b) = "next"

InRef(evos_ref, j) == \E i \in 1..Len(evos_ref) : evos_ref[i][1] = Items[j].href

IsCandidate(j) == InRef(ev.prev_evos_ref, j) \/ InRef(ev.next_evos_ref, j)

CiteTargets == {"/T1", "/T2", "/T 3", "/B"}

Called(t) == \E i \in 1..Len(ev.calls) : ev.calls[i] = t

\* C24: with ASSUME_CARDS_FILLED set, is_cardgame_ref on a target without a
\* cached record returns "not a card", requests nothing and leaves refs
\* unchanged; on a target with a record it returns the record.  A scan under
\* that setting makes no request and no write.
C24_AssumeCardsFilled ==
    /\ [](cfg.assume_cards_filled =>
            \A t \in CiteTargets :
                \E r \in {is_cardgame_ref(Ctx(refs, refFetch), digimon, web, cfg, t, NoSite)} :
                    /\ r[1].refs = refs
                    /\ r[1].reqs = <<>>
                    /\ r[1].rfetch = refFetch
                    /\ r[2] <=> (HasRecord(t) /\ StoredIsCard(t)))
    /\ [][(cfg.assume_cards_filled /\ ev'.op = "scan")
             => /\ refs' = refs
                /\ ev'.reqs = <<>>
                /\ refFetch' = refFetch
                /\ fetched' = fetched]_vars

\* under ASSUME_CARDS_FILLED the scan has classified the card page /T2, which
\* has no record, as "not a card" and has counted it, without any request
C24_Witness ==
    /\ pc = "scanned"
    /\ cfg.assume_cards_filled
    /\ cfg.ignore_card_only_refs
    /\ Items = <<H(TO), A(Cand(2), <<Cite("/T2")>>)>>
    /\ ~HasRecord("/T2")
    /\ Called("/T2")
    /\ ev.next_evos_ref = <<<<Cand(2), 1>>>>
    /\ ev.reqs = <<>>

\* the link lists stored for the Entity row of site s, previous then next
StoredLinks(s) ==
    LET R == {i \in 1..Len(digimon) : digimon[i].url = s}
    IN IF R = {} THEN <<>>
       ELSE LET i == CHOOSE r \in R : \A q \in R : r <= q
            IN loads(digimon[i].prev_links) \o loads(digimon[i].next_links)

NotReported(l) == ~ReportedScraped(l)

C25_DelayBeforeEveryRequest ==
    [][\A j \in 1..Len(ev'.reqs) :
          /\ ev'.reqs[j].net <=> get_digimon_html(digimon, ev'.reqs[j].site) = NULL
          /\ ev'.reqs[j].slept <=> ev'.reqs[j].net]_vars

\* one extraction has asked for two citation targets: one is in the Page
\* Cache, the other was requested after the delay
C25_Witness ==
    /\ ev.op = "extract"
    /\ \E i, j \in 1..Len(ev.reqs) :
          /\ ev.reqs[i].net /\ ev.reqs[i].slept
          /\ ~ev.reqs[j].net /\ ~ev.reqs[j].slept

\* C26: an extraction that completes sets both link lists of its Entity to
\* exactly the sequences extract_evolutions returned, whatever was stored
\* before, and changes nothing else; no other step changes a link list; an
\* Entity has both lists unset or both set.
C26_ListsReplacedTogether ==
    /\ [](\A i \in 1..Len(digimon) :
            digimon[i].prev_links.null <=> digimon[i].next_links.null)
    /\ [][IF ev'.op = "extract" /\ pc' = "mark"
          THEN \E r \in {extract_evolutions(Ctx(refs, refFetch), digimon, web, cfg,
                                             web[site].items, NoSite)} :
                  /\ Len(digimon') = Len(digimon)
                  /\ \A i \in 1..Len(digimon) :
                        digimon'[i] =
                            IF i = cur.id
                            THEN [digimon[i] EXCEPT !.prev_links = Lnk(r.prev),
                                                    !.next_links = Lnk(r.next)]
                            ELSE digimon[i]
          ELSE \A i \in 1..Len(digimon) :
                  /\ digimon'[i].prev_links = digimon[i].prev_links
                  /\ digimon'[i].next_links = digimon[i].next_links]_vars

\* the Entity "A" had the next links of page /A stored; the extraction of
\* page /B, which has the same name, has replaced them by those of /B
C26_Witness ==
    /\ ev.op = "extract"
    /\ pc = "mark"
    /\ Len(hist) = 1 /\ hist[1].empty /\ hist[1].start = "/A"
    /\ site = "/B"
    /\ digimon[cur.id].url = "/A"
    /\ PageLinks(web, "/A") = <<"/B">>
    /\ digimon[cur.id].prev_links = Lnk(<<>>)
    /\ digimon[cur.id].next_links = Lnk(<<"/C">>)

LinksSet(i) == ~digimon[i].prev_links.null /\ ~digimon[i].next_links.null

\* C27: when mark_scraped writes a site into the Ledger, an Entity row that
\* has the site as its siteId has both link lists set already, and a list
\* that is set is never unset again.
C27_MarkedAfterLinksStored ==
    [][/\ ev'.op = "mark"
          => \A i \in 1..Len(digimon) : digimon[i].url = ev'.marked => LinksSet(i)
       /\ \A i \in 1..Len(digimon) : LinksSet(i) => LinksSet(i)']_vars

\* the row of /A was in the store without link lists; the run has extracted
\* its links, stored them and only then marked /A
C27_Witness ==
    /\ ev.op = "mark"
    /\ ev.marked = "/A"
    /\ Len(hist) = 1 /\ ~hist[1].empty
    /\ InLedger("/A")
    /\ \E i \in 1..Len(digimon) :
          digimon[i].url = "/A" /\ LinksSet(i) /\ loads(digimon[i].next_links) # <<>>

ForeignSites == Sites \ LocalSites

\* C30: a popped site that does not start with "/" is never requested, has
\* no Entity row and its step of get_evo_links changes no Entity; it is in
\* the Ledger once its mark step is done.
C30_ForeignSiteOnlyMarked ==
    /\ [](\A s \in ForeignSites :
            /\ s \notin fetched
            /\ \A j \in 1..Len(ev.reqs) : ev.reqs[j].site # s
            /\ \A i \in 1..Len(digimon) : digimon[i].url # s
            /\ (pc = "mark" /\ site = s) => (cur = NoDigimon /\ ev.reqs = <<>>)
            /\ (ev.op = "mark" /\ ev.marked = s) => (InLedger(s) /\ ev.pushed = <<>>))
    /\ [][(pc = "evo" /\ site \in ForeignSites /\ ev'.op = "evo")
             => (pc' = "mark" /\ UNCHANGED <<digimon, refs, ledger, fetched>>)]_vars

\* the link "ext" of a creature page was pushed, popped and marked
C30_Witness ==
    /\ ev.op = "mark"
    /\ ev.marked = "ext"
    /\ InLedger("ext")
    /\ ReportedScraped("ext")
    /\ "ext" \notin fetched

\* C7: during one run, the calls of is_cardgame_ref(t) together issue at most
\* one fetch of t.
C7_AtMostOneFetchPerTarget ==
    \A t \in Sites : refFetch[t] <= 1

\* one step classified two citations of /T1 and fetched /T1 once
C7_Witness ==
    /\ ev.op = "extract"
    /\ Count(ev.calls, "/T1") >= 2
    /\ refFetch["/T1"] = 1
    /\ pc = "mark"

====
